---- MODULE Spec2Model ----
(***************************************************************************)
(* SpaceX launch records dashboard (spacex-dash-app.py).                   *)
(*                                                                         *)
(* The module loads a table of launch records, declares a layout with a   *)
(* site dropdown and a payload range slider, and registers two callbacks  *)
(* that the Dash runtime invokes with the controls' values:               *)
(*   update_pie_chart(selected_site)                                       *)
(*   update_scatter_chart(selected_site, payload_range)                    *)
(*                                                                         *)
(* A DataFrame is a sequence of rows; every row keeps its index label, as *)
(* pandas boolean-mask filtering (df[mask], here SelectSeq) does.  A      *)
(* figure is a record holding the data arrays that plotly express         *)
(* extracts from the frame it is given.                                   *)
(***************************************************************************)
EXTENDS Integers, Sequences, FiniteSets, TLC

(* ---------------- bounds of the model ---------------- *)

\* longest table read from the CSV file
MaxRecords == 2
\* payload masses and slider handles range over 0..MaxStop slider steps
MaxStop == 1

(* ---------------- constants of the program ---------------- *)

\* dcc.RangeSlider(min=0, max=10000, step=1000, pushable=500)
RangeSliderMin == 0
RangeSliderMax == 10000
RangeSliderStep == 1000
RangeSliderPushable == 500

\* the dropdown's sentinel value for "All Sites"
ALL == "ALL"
\* launch sites that may occur in the file, in the order pandas sorts them
SiteOrder == <<"CCAFS LC-40", "VAFB SLC-4E">>
LaunchSites == {SiteOrder[i] : i \in DOMAIN SiteOrder}
BoosterCategories == {"FT", "v1.1"}
Masses == {k * RangeSliderStep : k \in 0..MaxStop}

\* one line of spacex_launch_dash.csv (the columns the program reads)
CsvRows == [LaunchSite : LaunchSites, PayloadMass : Masses,
            class : {0, 1}, BoosterVersionCategory : BoosterCategories]
\* the files the program may be started on: at least one line
CsvFiles == UNION {[1..n -> CsvRows] : n \in 1..MaxRecords}

(* ---------------- pandas ---------------- *)

\* pd.read_csv: the rows of the file under a fresh RangeIndex
read_csv(file) ==
  [i \in 1..Len(file) |->
     [index |-> i,
      LaunchSite |-> file[i].LaunchSite,
      PayloadMass |-> file[i].PayloadMass,
      class |-> file[i].class,
      BoosterVersionCategory |-> file[i].BoosterVersionCategory]]

\* df[col]: one column as a series
Column(df, col) == [i \in 1..Len(df) |-> df[i][col]]

Values(series) == {series[i] : i \in 1..Len(series)}

\* Series.max() / Series.min() of a non-empty numeric series
series_max(series) ==
  CHOOSE m \in Values(series) : \A v \in Values(series) : v <= m

\* variant: the minimum taken with .max(), as on the line above it
series_min_as_max(series) ==
  CHOOSE m \in Values(series) : \A v \in Values(series) : v <= m

series_min(series) ==
  CHOOSE m \in Values(series) : \A v \in Values(series) : m <= v

\* Series.unique(): the distinct values in order of first appearance
unique(series) ==
  LET u[i \in 0..Len(series)] ==
        IF i = 0 THEN << >>
        ELSE IF series[i] \in Values(u[i-1]) THEN u[i-1]
             ELSE Append(u[i-1], series[i])
  IN u[Len(series)]

\* number of rows of df whose column col holds v
CountOf(df, col, v) == Cardinality({i \in 1..Len(df) : df[i][col] = v})

\* variant: grouping on a categorical column, which keeps empty groups
groupby_size_observed_false(df) ==
  [k \in 1..Len(SiteOrder) |->
     [name |-> SiteOrder[k], count |-> CountOf(df, "LaunchSite", SiteOrder[k])]]

\* df.groupby('Launch Site').size().reset_index(name=...): one row per site
\* that occurs in df, group keys sorted
groupby_size(df) ==
  LET present == SelectSeq(SiteOrder,
                   LAMBDA s : \E i \in 1..Len(df) : df[i].LaunchSite = s)
  IN [k \in 1..Len(present) |->
        [name |-> present[k], count |-> CountOf(df, "LaunchSite", present[k])]]

\* variant: the distinct values without their frequencies (count 1 each)
value_counts_distinct(df, col) ==
  LET vals == unique(Column(df, col))
  IN [i \in 1..Len(vals) |-> [name |-> vals[i], count |-> 1]]

\* Series.value_counts().reset_index(): one row per value that occurs in the
\* series, most frequent first, equal counts in order of first appearance
value_counts(df, col) ==
  LET vals == unique(Column(df, col))
      s[i \in 0..Len(vals)] ==
        IF i = 0 THEN << >>
        ELSE LET e == [name |-> vals[i], count |-> CountOf(df, col, vals[i])]
                 k == Cardinality({j \in 1..Len(s[i-1]) :
                                     s[i-1][j].count >= e.count})
             IN SubSeq(s[i-1], 1, k) \o <<e>> \o SubSeq(s[i-1], k+1, Len(s[i-1]))
  IN s[Len(vals)]

\* variant: the two labels of the mapping exchanged
class_label_swapped(c) == IF c = 1 THEN "Failure" ELSE "Success"

\* counts['class'].map({1: 'Success', 0: 'Failure'})
class_label(c) == IF c = 1 THEN "Success" ELSE "Failure"

(* ---------------- plotly express ---------------- *)

NoFigure == [type |-> "none"]

\* px.pie(frame, values=..., names=...): one slice per row of the frame
px_pie(counts, title) ==
  [type |-> "pie",
   title |-> title,
   labels |-> [i \in 1..Len(counts) |-> counts[i].name],
   values |-> [i \in 1..Len(counts) |-> counts[i].count]]

\* px.scatter(frame, x='Payload Mass (kg)', y='class',
\*            color='Booster Version Category'[, hover_data=['Launch Site']]):
\* one trace per booster category in order of first appearance, one point
\* per row of the frame
px_scatter(frame, title, hover) ==
  LET colors == unique(Column(frame, "BoosterVersionCategory"))
      trace(c) ==
        LET part == SelectSeq(frame, LAMBDA r : r.BoosterVersionCategory = c)
        IN [name |-> c,
            x |-> Column(part, "PayloadMass"),
            y |-> Column(part, "class"),
            customdata |-> IF hover THEN Column(part, "LaunchSite") ELSE << >>]
  IN [type |-> "scatter",
      title |-> title,
      data |-> [k \in 1..Len(colors) |-> trace(colors[k])]]

\* fig.update_yaxes(...) and fig.update_layout(...)
update_axes(fig) ==
  [type |-> fig.type, title |-> fig.title, data |-> fig.data,
   tickvals |-> <<0, 1>>, ticktext |-> <<"Failure", "Success">>,
   xaxis_title |-> "Payload Mass (kg)", yaxis_title |-> "Launch Outcome",
   legend_title |-> "Booster Version"]

(* ---------------- state ---------------- *)

VARIABLES
  spacex_df,        \* the module-level DataFrame
  min_payload,      \* module-level scalars
  max_payload,
  site_dropdown,    \* app.layout: the dcc.Dropdown 'site-dropdown'
  payload_slider,   \* app.layout: the dcc.RangeSlider 'payload-slider'
  pie_args,         \* arguments of the latest update_pie_chart call, << >> if none
  pie_fig,          \* the figure it returned
  scatter_args,     \* arguments of the latest update_scatter_chart call
  scatter_frame,    \* the frame that call handed to px.scatter
  scatter_fig,      \* the figure it returned
  loaded            \* history: spacex_df, min_payload, max_payload as loaded

vars == <<spacex_df, min_payload, max_payload, site_dropdown, payload_slider,
          pie_args, pie_fig, scatter_args, scatter_frame, scatter_fig, loaded>>

\* options=[{'label': 'All Sites', 'value': 'ALL'}] +
\*         [{'label': site, 'value': site} for site in df['Launch Site'].unique()]
dropdown_options(df) ==
  LET sites == unique(Column(df, "LaunchSite"))
  IN <<[label |-> "All Sites", value |-> ALL]>> \o
     [i \in 1..Len(sites) |-> [label |-> sites[i], value |-> sites[i]]]

\* module load: lines 10-12 and the layout of lines 18-67
Load(file) ==
  LET df == read_csv(file)
      hi == series_max(Column(df, "PayloadMass"))
      lo == series_min(Column(df, "PayloadMass"))
  IN /\ spacex_df = df
     /\ max_payload = hi
     /\ min_payload = lo
     /\ site_dropdown = [options |-> dropdown_options(df), value |-> ALL]
     /\ payload_slider = [min |-> RangeSliderMin, max |-> RangeSliderMax,
                          step |-> RangeSliderStep, value |-> <<lo, hi>>,
                          pushable |-> RangeSliderPushable, allowCross |-> FALSE]
     /\ loaded = [spacex_df |-> df, min_payload |-> lo, max_payload |-> hi]

Init ==
  /\ \E file \in CsvFiles : Load(file)
  /\ pie_args = << >>
  /\ pie_fig = NoFigure
  /\ scatter_args = << >>
  /\ scatter_frame = << >>
  /\ scatter_fig = NoFigure

(* ---------------- the callbacks ---------------- *)

\* variant: the "ALL" branch groups the whole table, not its successes
pie_chart_all_rows(df, selected_site) ==
  IF selected_site = ALL
  THEN px_pie(groupby_size(df), <<"Total Successful Launches by Site">>)
  ELSE LET filtered_df == SelectSeq(df, LAMBDA r : r.LaunchSite = selected_site)
           counts == value_counts(filtered_df, "class")
           named == [i \in 1..Len(counts) |->
                       [name |-> class_label(counts[i].name),
                        count |-> counts[i].count]]
       IN px_pie(named, <<"Success vs Failure for site ", selected_site>>)

\* the body of update_pie_chart: the figure it builds from the table
pie_chart(df, selected_site) ==
  IF selected_site = ALL
  THEN LET success_counts == groupby_size(SelectSeq(df, LAMBDA r : r.class = 1))
       IN px_pie(success_counts, <<"Total Successful Launches by Site">>)
  ELSE LET filtered_df == SelectSeq(df, LAMBDA r : r.LaunchSite = selected_site)
           counts == value_counts(filtered_df, "class")
           named == [i \in 1..Len(counts) |->
                       [name |-> class_label(counts[i].name),
                        count |-> counts[i].count]]
       IN px_pie(named, <<"Success vs Failure for site ", selected_site>>)

\* variant: both ends of the payload range exclusive
payload_filter_exclusive(df, low, high) ==
  SelectSeq(df, LAMBDA r : r.PayloadMass > low /\ r.PayloadMass < high)

\* variant: the upper end compared the wrong way round
payload_filter_flipped(df, low, high) ==
  SelectSeq(df, LAMBDA r : r.PayloadMass >= low /\ r.PayloadMass >= high)

\* filtered_df of update_scatter_chart: the rows inside the payload range
payload_filter(df, low, high) ==
  SelectSeq(df, LAMBDA r : r.PayloadMass >= low /\ r.PayloadMass <= high)

\* variant: the site branch plots filtered_df, not site_filtered_df
scatter_rows_no_site(df, selected_site, payload_range) ==
  payload_filter(df, payload_range[1], payload_range[2])

\* variant: a site the table does not have is treated like "ALL"
scatter_rows_unknown_as_all(df, selected_site, payload_range) ==
  LET filtered_df == payload_filter(df, payload_range[1], payload_range[2])
  IN IF \E i \in 1..Len(df) : df[i].LaunchSite = selected_site
     THEN SelectSeq(filtered_df, LAMBDA r : r.LaunchSite = selected_site)
     ELSE filtered_df

\* the frame update_scatter_chart plots: filtered_df, or site_filtered_df
scatter_rows(df, selected_site, payload_range) ==
  LET low == payload_range[1]
      high == payload_range[2]
      filtered_df == payload_filter(df, low, high)
  IN IF selected_site = ALL
     THEN filtered_df
     ELSE SelectSeq(filtered_df, LAMBDA r : r.LaunchSite = selected_site)

\* the figure update_scatter_chart builds from that frame
scatter_chart(frame, selected_site) ==
  update_axes(
    IF selected_site = ALL
    THEN px_scatter(frame,
           <<"Correlation between Payload and Success for all Sites">>, TRUE)
    ELSE px_scatter(frame,
           <<"Correlation between Payload and Success for site ", selected_site>>,
           FALSE))

update_pie_chart(selected_site) ==
  /\ pie_args' = <<selected_site>>
  /\ pie_fig' = pie_chart(spacex_df, selected_site)
  /\ UNCHANGED <<spacex_df, min_payload, max_payload, site_dropdown, payload_slider,
                 scatter_args, scatter_frame, scatter_fig, loaded>>

\* variant: filtered_df bound to the module-level name (global spacex_df)
update_scatter_chart_rebinding(selected_site, payload_range) ==
  LET frame == scatter_rows(spacex_df, selected_site, payload_range)
  IN /\ scatter_args' = <<selected_site, payload_range>>
     /\ scatter_frame' = frame
     /\ scatter_fig' = scatter_chart(frame, selected_site)
     /\ spacex_df' = payload_filter(spacex_df, payload_range[1], payload_range[2])
     /\ UNCHANGED <<min_payload, max_payload, site_dropdown, payload_slider,
                    pie_args, pie_fig, loaded>>

update_scatter_chart(selected_site, payload_range) ==
  LET frame == scatter_rows(spacex_df, selected_site, payload_range)
  IN /\ scatter_args' = <<selected_site, payload_range>>
     /\ scatter_frame' = frame
     /\ scatter_fig' = scatter_chart(frame, selected_site)
     /\ UNCHANGED <<spacex_df, min_payload, max_payload, site_dropdown, payload_slider,
                    pie_args, pie_fig, loaded>>

\* what the runtime may pass: the sentinel or any site name, whether or not
\* the table has it; any pair of slider positions, or the layout's default
SiteInputs == {ALL} \cup LaunchSites
Stops == {k * RangeSliderStep : k \in 0..MaxStop} \cap RangeSliderMin..RangeSliderMax
RangeInputs == (Stops \X Stops) \cup {payload_slider.value}

Next ==
  \/ \E s \in SiteInputs : update_pie_chart(s)
  \/ \E s \in SiteInputs : \E r \in RangeInputs : update_scatter_chart(s, r)

Spec == Init /\ [][Next]_vars

(* ---------------- notions the properties are stated in ---------------- *)

\* the site names that occur in the table
SitesOf(df) == Values(Column(df, "LaunchSite"))

RECURSIVE Sum(_)
Sum(seq) == IF seq = << >> THEN 0 ELSE Head(seq) + Sum(Tail(seq))

\* number of points a scatter figure draws, over all its traces
NumPoints(fig) == Sum([k \in 1..Len(fig.data) |-> Len(fig.data[k].x)])

\* the x coordinates a scatter figure draws
XValues(fig) == UNION {Values(fig.data[k].x) : k \in 1..Len(fig.data)}

\* the slices of a pie figure as label/count pairs
Slices(fig) == {<<fig.labels[i], fig.values[i]>> : i \in 1..Len(fig.labels)}

PieCalled == pie_args # << >>
ScatterCalled == scatter_args # << >>
InRange(r, low, high) == low <= r.PayloadMass /\ r.PayloadMass <= high
Selected(r, site) == site = ALL \/ r.LaunchSite = site

(* C1: after update_scatter_chart(site, [low, high]) the plotted rows are    *)
(* exactly the rows of the table that belong to the selected site and have  *)
(* low <= payload <= high, one point per row, every x within [low, high];   *)
(* with low > high the figure is a scatter figure without points.           *)
C1_ScatterWithinRange ==
  ScatterCalled =>
    LET site == scatter_args[1]
        low == scatter_args[2][1]
        high == scatter_args[2][2]
    IN /\ Values(scatter_frame) =
            {r \in Values(spacex_df) : InRange(r, low, high) /\ Selected(r, site)}
       /\ Cardinality(Values(scatter_frame)) = Len(scatter_frame)
       /\ NumPoints(scatter_fig) = Len(scatter_frame)
       /\ \A x \in XValues(scatter_fig) : low <= x /\ x <= high
       /\ scatter_fig.type = "scatter"
       /\ low > high => NumPoints(scatter_fig) = 0

\* a row sits on each end of the interval and a row of the site is left out
C1_Witness ==
  /\ ScatterCalled
  /\ LET site == scatter_args[1]
         low == scatter_args[2][1]
         high == scatter_args[2][2]
     IN /\ low <= high
        /\ \E r \in Values(scatter_frame) : r.PayloadMass = low \/ r.PayloadMass = high
        /\ \E r \in Values(spacex_df) : Selected(r, site) /\ ~InRange(r, low, high)

(* C2: with a concrete site every plotted row has that site; with "ALL" the *)
(* plotted rows are the union, over the concrete sites, of the rows plotted *)
(* for that site and the same interval.                                     *)
C2_ScatterSiteUnion ==
  ScatterCalled =>
    LET site == scatter_args[1]
        range == scatter_args[2]
    IN IF site = ALL
       THEN Values(scatter_frame) =
              UNION {Values(scatter_rows(spacex_df, s, range)) : s \in LaunchSites}
       ELSE /\ \A r \in Values(scatter_frame) : r.LaunchSite = site
            /\ Values(scatter_frame) \subseteq
                 Values(scatter_rows(spacex_df, ALL, range))

\* a concrete site is plotted while a row of another site is inside the range
C2_Witness ==
  /\ ScatterCalled
  /\ scatter_args[1] # ALL
  /\ scatter_frame # << >>
  /\ \E r \in Values(spacex_df) :
       /\ r.LaunchSite # scatter_args[1]
       /\ InRange(r, scatter_args[2][1], scatter_args[2][2])

(* C3: the rows plotted for an interval contain the rows plotted, for the    *)
(* same site, for every interval [low2, high2] with low <= low2 and         *)
(* high2 <= high.                                                           *)
C3_ScatterMonotonic ==
  ScatterCalled =>
    LET site == scatter_args[1]
        low == scatter_args[2][1]
        high == scatter_args[2][2]
    IN \A low2, high2 \in Stops :
         (low <= low2 /\ high2 <= high) =>
            Values(scatter_rows(spacex_df, site, <<low2, high2>>))
              \subseteq Values(scatter_frame)

\* some narrower interval plots fewer rows, but not none
C3_Witness ==
  /\ ScatterCalled
  /\ \E low2, high2 \in Stops :
       LET narrow == Values(scatter_rows(spacex_df, scatter_args[1], <<low2, high2>>))
       IN /\ scatter_args[2][1] <= low2
          /\ high2 <= scatter_args[2][2]
          /\ narrow # {}
          /\ narrow # Values(scatter_frame)

(* C4: after update_pie_chart(site) with a site that occurs in the table,   *)
(* the slice counts add up to the number of rows of that site, whatever     *)
(* payload range the scatter callback was last given.                       *)
C4_PieSiteTotal ==
  (PieCalled /\ pie_args[1] \in SitesOf(spacex_df)) =>
     Sum(pie_fig.values) = CountOf(spacex_df, "LaunchSite", pie_args[1])

\* the site has successes and failures, and the latest payload range leaves
\* some of its rows out
C4_Witness ==
  /\ PieCalled
  /\ pie_args[1] \in SitesOf(spacex_df)
  /\ Len(pie_fig.values) = 2
  /\ ScatterCalled
  /\ \E r \in Values(spacex_df) :
       /\ r.LaunchSite = pie_args[1]
       /\ ~InRange(r, scatter_args[2][1], scatter_args[2][2])

(* C5: after update_pie_chart("ALL") the slice counts add up to the number  *)
(* of successful rows (class = 1) of the whole table.                       *)
C5_PieAllTotal ==
  (PieCalled /\ pie_args[1] = ALL) =>
     Sum(pie_fig.values) = CountOf(spacex_df, "class", 1)

\* the table has a success and a failure
C5_Witness ==
  /\ PieCalled
  /\ pie_args[1] = ALL
  /\ CountOf(spacex_df, "class", 1) > 0
  /\ CountOf(spacex_df, "class", 0) > 0

(* C6, as claimed: after update_pie_chart with a site of the table the      *)
(* figure has exactly the two slices "Success" and "Failure".               *)
C6_AlwaysTwoSlices ==
  (PieCalled /\ pie_args[1] \in SitesOf(spacex_df)) =>
     /\ Len(pie_fig.labels) = 2
     /\ Values(pie_fig.labels) = {"Success", "Failure"}

(* C6: after update_pie_chart with a concrete site the figure has one slice *)
(* for each outcome that occurs among the rows of that site, labelled       *)
(* "Success" for class 1 and "Failure" for class 0, with the number of such *)
(* rows; an outcome that does not occur has no slice.                       *)
C6_SlicePerOutcomePresent ==
  (PieCalled /\ pie_args[1] # ALL) =>
     LET site_rows == SelectSeq(spacex_df, LAMBDA r : r.LaunchSite = pie_args[1])
         n(c) == CountOf(site_rows, "class", c)
     IN /\ Slices(pie_fig) =
             (IF n(1) > 0 THEN {<<"Success", n(1)>>} ELSE {}) \cup
             (IF n(0) > 0 THEN {<<"Failure", n(0)>>} ELSE {})
        /\ Len(pie_fig.labels) = Cardinality(Slices(pie_fig))
        /\ \A i \in 1..Len(pie_fig.values) : pie_fig.values[i] > 0

\* a site all of whose launches succeeded: the figure has one slice
C6_Witness ==
  /\ PieCalled
  /\ pie_args[1] \in SitesOf(spacex_df)
  /\ \A r \in Values(spacex_df) : r.LaunchSite = pie_args[1] => r.class = 1
  /\ pie_fig.labels = <<"Success">>

(* C7, as claimed: after update_pie_chart("ALL") the figure has one slice   *)
(* for every site of the table, carrying its number of successes, 0         *)
(* included.                                                                *)
C7_SlicePerSite ==
  (PieCalled /\ pie_args[1] = ALL) =>
     Slices(pie_fig) =
       {<<s, Cardinality({r \in Values(spacex_df) : r.LaunchSite = s /\ r.class = 1})>> :
          s \in SitesOf(spacex_df)}

(* C7: after update_pie_chart("ALL") the figure has one slice for every     *)
(* site that has at least one successful row, carrying its number of        *)
(* successes; a site without successes has no slice.                        *)
C7_SlicePerSuccessfulSite ==
  (PieCalled /\ pie_args[1] = ALL) =>
     /\ Slices(pie_fig) =
          {<<s, Cardinality({r \in Values(spacex_df) : r.LaunchSite = s /\ r.class = 1})>> :
             s \in {r.LaunchSite : r \in {q \in Values(spacex_df) : q.class = 1}}}
     /\ Len(pie_fig.labels) = Cardinality(Values(pie_fig.labels))
     /\ \A i \in 1..Len(pie_fig.values) : pie_fig.values[i] > 0

\* one site has a success, another only failures
C7_Witness ==
  /\ PieCalled
  /\ pie_args[1] = ALL
  /\ Len(pie_fig.labels) = 1
  /\ Cardinality(SitesOf(spacex_df)) = 2

(* C8: for a site name that is neither "ALL" nor in the table, the pie      *)
(* callback returns a pie figure without slices and the scatter callback a  *)
(* scatter figure without points, for every payload interval.               *)
C8_UnknownSiteEmpty ==
  /\ (PieCalled /\ pie_args[1] \notin {ALL} \cup SitesOf(spacex_df)) =>
        /\ pie_fig.type = "pie"
        /\ pie_fig.labels = << >>
        /\ pie_fig.values = << >>
  /\ (ScatterCalled /\ scatter_args[1] \notin {ALL} \cup SitesOf(spacex_df)) =>
        /\ scatter_fig.type = "scatter"
        /\ scatter_frame = << >>
        /\ NumPoints(scatter_fig) = 0

\* both callbacks were given a site the table does not have, the scatter
\* callback with an interval that holds rows of the table
C8_Witness ==
  /\ PieCalled
  /\ pie_args[1] \notin {ALL} \cup SitesOf(spacex_df)
  /\ ScatterCalled
  /\ scatter_args[1] \notin {ALL} \cup SitesOf(spacex_df)
  /\ \E r \in Values(spacex_df) : InRange(r, scatter_args[2][1], scatter_args[2][2])

(* C9: in every reachable state spacex_df, min_payload and max_payload are  *)
(* as loaded, and each callback's latest figure is the one its arguments    *)
(* give on the table as loaded, whatever calls came before.                 *)
C9_ReadOnlyAndStateless ==
  /\ spacex_df = loaded.spacex_df
  /\ min_payload = loaded.min_payload
  /\ max_payload = loaded.max_payload
  /\ PieCalled => pie_fig = pie_chart(loaded.spacex_df, pie_args[1])
  /\ ScatterCalled =>
       scatter_fig = scatter_chart(
                       scatter_rows(loaded.spacex_df, scatter_args[1], scatter_args[2]),
                       scatter_args[1])

\* both callbacks have run, the scatter callback having filtered rows out
C9_Witness ==
  /\ PieCalled
  /\ ScatterCalled
  /\ Len(scatter_frame) < Len(spacex_df)
  /\ pie_fig.labels # << >>

(* C10: the dropdown offers "ALL" and exactly the sites of the table and    *)
(* holds "ALL"; the slider holds [min payload, max payload] of the table;   *)
(* update_scatter_chart called with these two values plots one point per    *)
(* row of the table.                                                        *)
C10_DefaultsShowAll ==
  /\ {site_dropdown.options[i].value : i \in 1..Len(site_dropdown.options)} =
       {ALL} \cup SitesOf(spacex_df)
  /\ site_dropdown.value = ALL
  /\ \A r \in Values(spacex_df) :
       InRange(r, payload_slider.value[1], payload_slider.value[2])
  /\ scatter_args = <<site_dropdown.value, payload_slider.value>> =>
       /\ scatter_frame = spacex_df
       /\ NumPoints(scatter_fig) = Len(spacex_df)

\* the scatter callback ran on the defaults of a table with two payloads
C10_Witness ==
  /\ scatter_args = <<site_dropdown.value, payload_slider.value>>
  /\ min_payload < max_payload
  /\ NumPoints(scatter_fig) = Len(spacex_df)

====
